---- MODULE Spec2Model ----
(***************************************************************************)
(* A model of crustaceousfcgi: the FastCGI record codec, the name-value    *)
(* pair encoder, the request assembly and the response-reading loop of     *)
(* src/src/fcgi/mod.rs and src/src/main.rs.                                *)
(*                                                                         *)
(* Byte strings (Vec<u8>, String as its UTF-8 bytes) are sequences of      *)
(* numbers in 0..255.  A Result is a record with field ok; Ok carries val, *)
(* Err carries the error string of the source.  A panic (expect/unwrap on  *)
(* an Err) is recorded as the outcome "panic" with the expect message.     *)
(***************************************************************************)
EXTENDS Integers, Sequences, FiniteSets, TLC

VARIABLES
    \* Record::record_from_data / Record::to_vec_u8 applied to one input
    rec_type, rec_content, rec_padding, rec_pc, rec_result, rec_bytes,
    \* KeyValuePair::to_vec_u8 applied to one pair
    kv_name, kv_value, kv_pc, kv_result,
    \* BeginRequest::new / BeginRequest::to_vec_u8 applied to one input
    br_role, br_flags, br_reserved, br_pc, br_result,
    \* KeyValuePair::to_vec_u8 applied to a pair of given sizes
    ks_name_size, ks_value_size, ks_pc, ks_result,
    \* request assembly (main, Server::serialize_params)
    params, asm_pc, asm_i, begin_rec, kv_records, stdin_record, out, asm_panic,
    \* Server::consume_response_to_string
    stream, rd_pc, pos, hbuf, response, rd_result, rd_panic, printed, iter

recVars == <<rec_type, rec_content, rec_padding, rec_pc, rec_result, rec_bytes>>
kvVars  == <<kv_name, kv_value, kv_pc, kv_result>>
asmVars == <<params, asm_pc, asm_i, begin_rec, kv_records, stdin_record, out, asm_panic>>
rdVars  == <<stream, rd_pc, pos, hbuf, response, rd_result, rd_panic, printed, iter>>
brVars  == <<br_role, br_flags, br_reserved, br_pc, br_result>>
ksVars  == <<ks_name_size, ks_value_size, ks_pc, ks_result>>
vars    == <<recVars, kvVars, asmVars, rdVars, brVars, ksVars>>

----------------------------------------------------------------------------
(* Integer widths of the source *)

U8_MAX  == 255
U16_MAX == 65535

\* x > usize::try_from(u32::MAX).unwrap(), that is x >= 2^32, computed on the
\* 16-bit halves of x
ExceedsU32(x) == x \div (U16_MAX + 1) > U16_MAX

\* enum RecordType
RecordType == {"BeginRequest", "AbortRequest", "EndRequest", "Params", "Stdin",
               "Stdout", "Stderr", "Data", "GetValues", "GetValuesResult",
               "UnknownType"}

\* `record_type as u8`: the discriminants of enum RecordType
RecordType_as_u8(t) ==
    CASE t = "BeginRequest"    -> 1
      [] t = "AbortRequest"    -> 2
      [] t = "EndRequest"      -> 3
      [] t = "Params"          -> 4
      [] t = "Stdin"           -> 5
      [] t = "Stdout"          -> 6
      [] t = "Stderr"          -> 7
      [] t = "Data"            -> 8
      [] t = "GetValues"       -> 9
      [] t = "GetValuesResult" -> 10
      [] t = "UnknownType"     -> 11

\* enum RoleType
RoleType == {"Responder", "Authorizer", "Filter"}

\* `role as u16`: the discriminants of enum RoleType
RoleType_as_u16(r) ==
    CASE r = "Responder"  -> 1
      [] r = "Authorizer" -> 2
      [] r = "Filter"     -> 3

Ok(v)  == [ok |-> TRUE, val |-> v]
Err(e) == [ok |-> FALSE, err |-> e]

\* (x & (0xFF << offset)) >> offset
MaskShift(x, offset) == (x \div (2 ^ offset)) % 256

\* usize -> u8 try_into()
TryIntoU8(x) == IF x <= U8_MAX THEN Ok(x) ELSE Err("out of range")

\* vec![0; n]
Zeros(n) == [i \in 1..n |-> 0]

RECURSIVE Concat(_)
\* [Vec<u8>].concat(), Vec::extend over a list
Concat(ss) == IF ss = <<>> THEN <<>> ELSE Head(ss) \o Concat(Tail(ss))

----------------------------------------------------------------------------
(* Record *)

\* record_from_data without the test of the content length: the length is
\* cut to its low 16 bits
record_from_data_NoLimit(record_type, content_data, padding_length) ==
    LET content_length == Len(content_data)
        content_length_hi == TryIntoU8(MaskShift(content_length, 8))
        content_length_lo == TryIntoU8(MaskShift(content_length, 0))
    IN  Ok([header |-> [version |-> 1,
                        record_type |-> record_type,
                        request_id_hi |-> 0,
                        request_id_lo |-> 1,
                        content_length_hi |-> content_length_hi.val,
                        content_length_lo |-> content_length_lo.val,
                        padding_length |-> padding_length,
                        reserved |-> 0],
            content_data |-> content_data,
            padding_data |-> Zeros(padding_length)])

\* record_from_data with the request id taken from the record type instead
\* of the fixed 0, 1
record_from_data_IdOfType(record_type, content_data, padding_length) ==
    LET content_length == Len(content_data)
        content_length_hi == TryIntoU8(MaskShift(content_length, 8))
        content_length_lo == TryIntoU8(MaskShift(content_length, 0))
    IN  IF content_length > U16_MAX THEN Err("Content too long")
        ELSE IF padding_length > U8_MAX THEN Err("Padding too long")
        ELSE IF ~content_length_hi.ok \/ ~content_length_lo.ok
             THEN Err("Content length conversion failed")
        ELSE Ok([header |-> [version |-> 1,
                             record_type |-> record_type,
                             request_id_hi |-> 0,
                             request_id_lo |-> RecordType_as_u8(record_type),
                             content_length_hi |-> content_length_hi.val,
                             content_length_lo |-> content_length_lo.val,
                             padding_length |-> padding_length,
                             reserved |-> 0],
                 content_data |-> content_data,
                 padding_data |-> Zeros(padding_length)])

\* Record::record_from_data
record_from_data(record_type, content_data, padding_length) ==
    LET content_length == Len(content_data)
        content_length_hi == TryIntoU8(MaskShift(content_length, 8))
        content_length_lo == TryIntoU8(MaskShift(content_length, 0))
    IN  IF content_length > U16_MAX THEN Err("Content too long")
        ELSE IF padding_length > U8_MAX THEN Err("Padding too long")
        ELSE IF ~content_length_hi.ok \/ ~content_length_lo.ok
             THEN Err("Content length conversion failed")
        ELSE Ok([header |-> [version |-> 1,
                             record_type |-> record_type,
                             request_id_hi |-> 0,
                             request_id_lo |-> 1,
                             content_length_hi |-> content_length_hi.val,
                             content_length_lo |-> content_length_lo.val,
                             padding_length |-> padding_length,
                             reserved |-> 0],
                 content_data |-> content_data,
                 padding_data |-> Zeros(padding_length)])

\* to_vec_u8 with the two content length bytes pushed low byte first
Record_to_vec_u8_SwappedLength(self) ==
    <<self.header.version,
      RecordType_as_u8(self.header.record_type),
      self.header.request_id_hi,
      self.header.request_id_lo,
      self.header.content_length_lo,
      self.header.content_length_hi,
      self.header.padding_length,
      self.header.reserved>>
    \o self.content_data \o self.padding_data

\* Record::to_vec_u8
Record_to_vec_u8(self) ==
    <<self.header.version,
      RecordType_as_u8(self.header.record_type),
      self.header.request_id_hi,
      self.header.request_id_lo,
      self.header.content_length_hi,
      self.header.content_length_lo,
      self.header.padding_length,
      self.header.reserved>>
    \o self.content_data \o self.padding_data

----------------------------------------------------------------------------
(* KeyValuePair (FCGIKeyValuePair of main.rs is the same code) *)

\* name_size_bytes / value_size_bytes: the four bytes of a size, most
\* significant first, each through try_into()
SizeBytes(size) == [k \in 1..4 |-> TryIntoU8(MaskShift(size, 8 * (4 - k)))]

\* the bytes pushed for one size: all four when size > u8::MAX, else
\* size_bytes[3], the least significant one
LengthPrefix(size) ==
    LET size_bytes == [k \in 1..4 |-> SizeBytes(size)[k].val]
    IN  IF size > U8_MAX THEN size_bytes ELSE <<size_bytes[4]>>

KeyValuePair_to_vec_u8(name, value) ==
    LET name_size  == Len(name)
        value_size == Len(value)
    IN  IF ExceedsU32(name_size) \/ ExceedsU32(value_size)
        THEN Err("Name or value size too large")
        ELSE IF \E k \in 1..4 : ~SizeBytes(name_size)[k].ok \/ ~SizeBytes(value_size)[k].ok
        THEN Err("Name or value size decomposition failed")
        ELSE Ok(LengthPrefix(name_size) \o LengthPrefix(value_size) \o name \o value)

\* A usize too large to write as one number is held as two limbs: the value
\* is hi * 2^16 + lo, lo in 0..65535.
Wide(n) == [hi |-> n \div (U16_MAX + 1), lo |-> n % (U16_MAX + 1)]

\* size > u32m_usize
WideExceedsU32(size) == size.hi > U16_MAX

\* (size & (0xFF << offset)) >> offset, for the offsets 24, 16, 8, 0
WideMaskShift(size, offset) ==
    IF offset >= 16 THEN MaskShift(size.hi, offset - 16) ELSE MaskShift(size.lo, offset)

\* size > u8::MAX.into()
WideExceedsU8(size) == size.hi > 0 \/ size.lo > U8_MAX

\* name_size_bytes / value_size_bytes of a size held in limbs
WideSizeBytes(size) == [k \in 1..4 |-> TryIntoU8(WideMaskShift(size, 8 * (4 - k)))]

\* the bytes pushed for one size held in limbs
WideLengthPrefix(size) ==
    LET size_bytes == [k \in 1..4 |-> WideSizeBytes(size)[k].val]
    IN  IF WideExceedsU8(size) THEN size_bytes ELSE <<size_bytes[4]>>

\* KeyValuePair::to_vec_u8 as far as it depends on the sizes alone: the error
\* it returns, or the bytes it pushes to output before the name and the value
KeyValuePair_to_vec_u8_sizes(name_size, value_size) ==
    IF WideExceedsU32(name_size) \/ WideExceedsU32(value_size)
    THEN Err("Name or value size too large")
    ELSE IF \E k \in 1..4 : ~WideSizeBytes(name_size)[k].ok \/ ~WideSizeBytes(value_size)[k].ok
    THEN Err("Name or value size decomposition failed")
    ELSE Ok(WideLengthPrefix(name_size) \o WideLengthPrefix(value_size))

----------------------------------------------------------------------------
(* BeginRequest (FCGIBeginRequest of main.rs is the same code) *)

BeginRequest_to_vec_u8(self) ==
    LET role_as_u16 == RoleType_as_u16(self.role)
        role_hi == TryIntoU8(MaskShift(role_as_u16, 8))
        role_lo == TryIntoU8(MaskShift(role_as_u16, 0))
    IN  IF ~role_hi.ok \/ ~role_lo.ok
        THEN Err("Role serialization failed.")
        ELSE Ok(<<role_hi.val, role_lo.val, self.flags>> \o self.reserved)

----------------------------------------------------------------------------
(* Server::serialize_params *)

\* one turn of the loop over the pairs: kv.to_vec_u8().expect(..), then
\* Record::record_from_data(Params, data, 0).expect(..); a panic is an Err
\* carrying the expect message
ParamRecord(kv) ==
    LET data == KeyValuePair_to_vec_u8(kv[1], kv[2])
    IN  IF ~data.ok THEN Err("KV serialization failed")
        ELSE LET rec == record_from_data("Params", data.val, 0)
             IN  IF ~rec.ok THEN Err("Record creation failed") ELSE Ok(rec.val)

RECURSIVE ParamRecords(_)
\* the loop: the records of all the pairs in order, or the first panic
ParamRecords(kvs) ==
    IF kvs = <<>> THEN Ok(<<>>)
    ELSE LET rec == ParamRecord(Head(kvs))
         IN  IF ~rec.ok THEN rec
             ELSE LET rest == ParamRecords(Tail(kvs))
                  IN  IF ~rest.ok THEN rest ELSE Ok(<<rec.val>> \o rest.val)

serialize_params(self_params) ==
    LET kv_recs == ParamRecords(self_params)
    IN  IF ~kv_recs.ok THEN kv_recs
        ELSE Ok(Concat([i \in 1..Len(kv_recs.val) |-> Record_to_vec_u8(kv_recs.val[i])]))

----------------------------------------------------------------------------
(* String::from_utf8_lossy, as Server::consume_response_to_string uses it *)

\* the length of the UTF-8 sequence a first byte announces, 0 for a byte
\* that starts none
Utf8CharWidth(b) ==
    IF b < 128 THEN 1
    ELSE IF b \in 194..223 THEN 2
    ELSE IF b \in 224..239 THEN 3
    ELSE IF b \in 240..244 THEN 4
    ELSE 0

\* the byte at place i, 0 past the end
SafeGet(src, i) == IF i <= Len(src) THEN src[i] ELSE 0

IsContinuation(b) == b \in 128..191

\* the second byte a three-byte sequence admits after first byte b
Second3(b, b1) ==
    \/ b = 224 /\ b1 \in 160..191
    \/ b \in 225..236 /\ b1 \in 128..191
    \/ b = 237 /\ b1 \in 128..159
    \/ b \in 238..239 /\ b1 \in 128..191

\* the second byte a four-byte sequence admits after first byte b
Second4(b, b1) ==
    \/ b = 240 /\ b1 \in 144..191
    \/ b \in 241..243 /\ b1 \in 128..191
    \/ b = 244 /\ b1 \in 128..143

\* the chunk of src that starts at place i: a valid sequence, or the longest
\* prefix of a broken one (at least its first byte)
Utf8Chunk(src, i) ==
    LET b  == src[i]
        w  == Utf8CharWidth(b)
        b1 == SafeGet(src, i + 1)
        b2 == SafeGet(src, i + 2)
        b3 == SafeGet(src, i + 3)
    IN  CASE w = 1 -> [valid |-> TRUE, len |-> 1]
          [] w = 2 -> IF IsContinuation(b1) THEN [valid |-> TRUE, len |-> 2]
                      ELSE [valid |-> FALSE, len |-> 1]
          [] w = 3 -> IF ~Second3(b, b1) THEN [valid |-> FALSE, len |-> 1]
                      ELSE IF ~IsContinuation(b2) THEN [valid |-> FALSE, len |-> 2]
                      ELSE [valid |-> TRUE, len |-> 3]
          [] w = 4 -> IF ~Second4(b, b1) THEN [valid |-> FALSE, len |-> 1]
                      ELSE IF ~IsContinuation(b2) THEN [valid |-> FALSE, len |-> 2]
                      ELSE IF ~IsContinuation(b3) THEN [valid |-> FALSE, len |-> 3]
                      ELSE [valid |-> TRUE, len |-> 4]
          [] OTHER -> [valid |-> FALSE, len |-> 1]

\* U+FFFD REPLACEMENT CHARACTER in UTF-8
Replacement == <<239, 191, 189>>

\* the place after the run of ASCII bytes that starts at place i
AsciiRunEnd(src, i) ==
    LET stops == {j \in i..Len(src) : src[j] >= 128}
    IN  IF stops = {} THEN Len(src) + 1
        ELSE CHOOSE j \in stops : \A k \in stops : j <= k

RECURSIVE Utf8LossyFrom(_, _)
\* src from place i on, valid chunks kept and each broken one replaced
Utf8LossyFrom(src, i) ==
    IF i > Len(src) THEN <<>>
    ELSE IF src[i] < 128
    THEN SubSeq(src, i, AsciiRunEnd(src, i) - 1) \o Utf8LossyFrom(src, AsciiRunEnd(src, i))
    ELSE LET chunk == Utf8Chunk(src, i)
         IN  (IF chunk.valid THEN SubSeq(src, i, i + chunk.len - 1) ELSE Replacement)
             \o Utf8LossyFrom(src, i + chunk.len)

\* String::from_utf8_lossy(&bytes): the bytes of the resulting string
from_utf8_lossy(bytes) == Utf8LossyFrom(bytes, 1)

----------------------------------------------------------------------------
(* Inputs of the model *)

\* content lengths 0..MaxSmallLen, and MaxOver lengths on each side of the
\* 16-bit limit
MaxSmallLen == 2
MaxOver     == 1
\* padding lengths 0..MaxSmallPad, and the two largest a u8 holds
MaxSmallPad == 1

\* a byte string of length n whose bytes differ from place to place
Fill(n) == [i \in 1..n |-> (7 * i + n) % 256]

RecLens == (0..MaxSmallLen) \cup {U8_MAX, U8_MAX + 1, U8_MAX + 2}
           \cup {U16_MAX - k : k \in 0..MaxOver}
           \cup {U16_MAX + 1 + k : k \in 0..MaxOver}

RecPads == (0..MaxSmallPad) \cup {U8_MAX - 1, U8_MAX}

\* a String of n bytes (ASCII, so valid UTF-8) whose bytes differ from place
\* to place
Str(n) == [i \in 1..n |-> (7 * i + n) % 128]

\* name and value lengths: 0..MaxSmallLen, and the lengths around the 7-bit
\* and the 8-bit limit
KvLens == (0..MaxSmallLen) \cup {126, 127, 128, 129, U8_MAX - 1, U8_MAX, U8_MAX + 1, U8_MAX + 2}

\* flags of a BeginRequest: 0..MaxSmallPad and the largest a u8 holds
BrFlags == (0..MaxSmallPad) \cup {U8_MAX}

\* reserved bytes of a BeginRequest: any [u8; 5] of the bytes 0 and 255
BrReserved == [1..5 -> {0, U8_MAX}]

\* upper limbs of a size: 0, and MaxLimbOver values on each side of the
\* limbs of 2^31 and of 2^32
MaxLimbOver == 1

KsHiLimbs == {0} \cup {32768 + k : k \in (0 - MaxLimbOver)..(MaxLimbOver - 1)}
                 \cup {U16_MAX + 1 + k : k \in (0 - MaxLimbOver)..(MaxLimbOver - 1)}

KsLoLimbs == {0, 127, 128, U8_MAX, U8_MAX + 1, U16_MAX}

\* name and value sizes, up to 2^32 + 65535
KsSizes == {[hi |-> h, lo |-> l] : h \in KsHiLimbs, l \in KsLoLimbs}

\* the pairs main pushes to kvs
MainKvs ==
    <<
      \* GATEWAY_INTERFACE = CGI/1.1
      <<<<71, 65, 84, 69, 87, 65, 89, 95, 73, 78, 84, 69, 82, 70, 65, 67, 69>>,
        <<67, 71, 73, 47, 49, 46, 49>>>>,
      \* SERVER_ADDR = 127.0.0.1
      <<<<83, 69, 82, 86, 69, 82, 95, 65, 68, 68, 82>>,
        <<49, 50, 55, 46, 48, 46, 48, 46, 49>>>>,
      \* SERVER_PORT = 80
      <<<<83, 69, 82, 86, 69, 82, 95, 80, 79, 82, 84>>,
        <<56, 48>>>>,
      \* SERVER_PROTOCOL = HTTP/2.0
      <<<<83, 69, 82, 86, 69, 82, 95, 80, 82, 79, 84, 79, 67, 79, 76>>,
        <<72, 84, 84, 80, 47, 50, 46, 48>>>>,
      \* SERVER_SOFTWARE = CrustaceousFCGI/trunk
      <<<<83, 69, 82, 86, 69, 82, 95, 83, 79, 70, 84, 87, 65, 82, 69>>,
        <<67, 114, 117, 115, 116, 97, 99, 101, 111, 117, 115, 70, 67, 71, 73, 47, 116, 114, 117, 110, 107>>>>,
      \* REQUEST_METHOD = GET
      <<<<82, 69, 81, 85, 69, 83, 84, 95, 77, 69, 84, 72, 79, 68>>,
        <<71, 69, 84>>>>,
      \* REMOTE_ADDR = 127.0.0.1
      <<<<82, 69, 77, 79, 84, 69, 95, 65, 68, 68, 82>>,
        <<49, 50, 55, 46, 48, 46, 48, 46, 49>>>>,
      \* "" = ""
      <<<<>>,
        <<>>>>,
      \* SCRIPT_FILENAME = /var/www/html/index.php
      <<<<83, 67, 82, 73, 80, 84, 95, 70, 73, 76, 69, 78, 65, 77, 69>>,
        <<47, 118, 97, 114, 47, 119, 119, 119, 47, 104, 116, 109, 108, 47, 105, 110, 100, 101, 120, 46, 112, 104, 112>>>>
    >>

\* REQUEST_METHOD = GET
RequestMethodGet == MainKvs[6]

\* the pairs a parameter list is drawn from: the empty pair, a short pair, a
\* pair with a long name, and pairs whose encoding (1 + 4 + value length
\* bytes) is 65535 - MaxOver .. 65535 + MaxOver bytes long
AsmPairs ==
    {<<<<>>, <<>>>>, RequestMethodGet, <<Str(128), Str(1)>>}
    \cup {<<<<>>, Str(U16_MAX - 5 + k)>> : k \in (0 - MaxOver)..MaxOver}

\* parameter lists hold at most MaxParams pairs
MaxParams == 2

RECURSIVE SeqsUpTo(_, _)
SeqsUpTo(S, n) ==
    IF n = 0 THEN {<<>>}
    ELSE LET shorter == SeqsUpTo(S, n - 1)
         IN  shorter \cup {Append(q, x) : q \in {r \in shorter : Len(r) = n - 1}, x \in S}

ParamLists == SeqsUpTo(AsmPairs, MaxParams) \cup {MainKvs}

\* a record as the application server puts it on the wire
WireRecord(version, type, request_id, content, padding) ==
    <<version, type, request_id \div 256, request_id % 256,
      Len(content) \div 256, Len(content) % 256, Len(padding), 0>>
    \o content \o padding

\* padding bytes of the application server (no byte of them is a zero, so
\* that they show wherever they are taken for something else)
PeerPad(n) == [i \in 1..n |-> 35]

\* the records a response stream is drawn from
RdRecords ==
    { \* Stdout "Hello"
      WireRecord(1, 6, 1, <<72, 101, 108, 108, 111>>, <<>>),
      \* Stdout " World", padded
      WireRecord(1, 6, 1, <<32, 87, 111, 114, 108, 100>>, PeerPad(2)),
      \* Stdout, empty
      WireRecord(1, 6, 1, <<>>, <<>>),
      \* Stdout, the first byte of a two-byte character
      WireRecord(1, 6, 1, <<195>>, <<>>),
      \* Stdout, a continuation byte and a byte no UTF-8 text holds; another
      \* version and request id
      WireRecord(2, 6, 513, <<169, 255>>, PeerPad(1)),
      \* Stdout, more than 255 bytes of content, the longest padding
      WireRecord(1, 6, 1, Str(U8_MAX + 2), PeerPad(U8_MAX)),
      \* Stderr "E"
      WireRecord(1, 7, 1, <<69>>, <<>>),
      \* Stderr "oops", padded; another request id
      WireRecord(1, 7, 2, <<111, 111, 112, 115>>, PeerPad(4)),
      \* EndRequest: appStatus 258, protocolStatus 1 (REQUEST_COMPLETE)
      WireRecord(1, 3, 1, <<0, 0, 1, 2, 1, 0, 0, 0>>, <<>>),
      \* Data
      WireRecord(1, 8, 1, <<1, 2>>, <<>>),
      \* a type byte that is no record type
      WireRecord(1, 12, 1, <<>>, <<>>) }

\* a response stream holds at most MaxRecs records
MaxRecs == 3
\* and the application server closes it up to MaxCut bytes before its end
MaxCut  == 2

RdStreams ==
    {SubSeq(Concat(rs), 1, Len(Concat(rs)) - k) :
        rs \in SeqsUpTo(RdRecords, MaxRecs), k \in 0..MaxCut}

----------------------------------------------------------------------------
(* The states in which a component of the model is not running *)

IdleRec == /\ rec_type = "UnknownType" /\ rec_content = <<>> /\ rec_padding = 0
           /\ rec_pc = "idle" /\ rec_result = Err("") /\ rec_bytes = <<>>

IdleKV  == /\ kv_name = <<>> /\ kv_value = <<>>
           /\ kv_pc = "idle" /\ kv_result = Err("")

IdleAsm == /\ params = <<>> /\ asm_pc = "idle" /\ asm_i = 0
           /\ begin_rec = <<>> /\ kv_records = <<>> /\ stdin_record = <<>>
           /\ out = <<>> /\ asm_panic = ""

IdleRd  == /\ stream = <<>> /\ rd_pc = "idle" /\ pos = 0
           /\ hbuf = Zeros(8) /\ response = <<>> /\ rd_result = "none"
           /\ rd_panic = "" /\ printed = <<>> /\ iter = 0

IdleBR  == /\ br_role = "Responder" /\ br_flags = 0 /\ br_reserved = Zeros(5)
           /\ br_pc = "idle" /\ br_result = Err("")

IdleKS  == /\ ks_name_size = Wide(0) /\ ks_value_size = Wide(0)
           /\ ks_pc = "idle" /\ ks_result = Err("")

----------------------------------------------------------------------------
(* Record::record_from_data followed by Record::to_vec_u8 *)

InitRecord ==
    /\ rec_type \in RecordType
    /\ rec_content \in {Fill(n) : n \in RecLens}
    /\ rec_padding \in RecPads
    /\ rec_pc = "start"
    /\ rec_result = Err("")
    /\ rec_bytes = <<>>
    /\ IdleKV /\ IdleAsm /\ IdleRd /\ IdleBR /\ IdleKS

RecFromData ==
    /\ rec_pc = "start"
    /\ rec_result' = record_from_data(rec_type, rec_content, rec_padding)
    /\ rec_pc' = IF rec_result'.ok THEN "built" ELSE "err"
    /\ UNCHANGED <<rec_type, rec_content, rec_padding, rec_bytes>>
    /\ UNCHANGED <<kvVars, asmVars, rdVars, brVars, ksVars>>

RecToVec ==
    /\ rec_pc = "built"
    /\ rec_bytes' = Record_to_vec_u8(rec_result.val)
    /\ rec_pc' = "done"
    /\ UNCHANGED <<rec_type, rec_content, rec_padding, rec_result>>
    /\ UNCHANGED <<kvVars, asmVars, rdVars, brVars, ksVars>>

NextRecord == RecFromData \/ RecToVec

SpecRecord == InitRecord /\ [][NextRecord]_vars

----------------------------------------------------------------------------
(* KeyValuePair::to_vec_u8 applied to one pair *)

InitKV ==
    /\ kv_name \in {Str(n) : n \in KvLens}
    /\ kv_value \in {Str(n) : n \in KvLens}
    /\ kv_pc = "start"
    /\ kv_result = Err("")
    /\ IdleRec /\ IdleAsm /\ IdleRd /\ IdleBR /\ IdleKS

KvToVec ==
    /\ kv_pc = "start"
    /\ kv_result' = KeyValuePair_to_vec_u8(kv_name, kv_value)
    /\ kv_pc' = IF kv_result'.ok THEN "done" ELSE "err"
    /\ UNCHANGED <<kv_name, kv_value>>
    /\ UNCHANGED <<recVars, asmVars, rdVars, brVars, ksVars>>

NextKV == KvToVec

SpecKV == InitKV /\ [][NextKV]_vars

----------------------------------------------------------------------------
(* KeyValuePair::to_vec_u8 applied to a pair whose name and value have given *)
(* sizes, up to sizes past 2^32                                              *)

InitKVSizes ==
    /\ ks_name_size \in KsSizes
    /\ ks_value_size \in KsSizes
    /\ ks_pc = "start"
    /\ ks_result = Err("")
    /\ IdleRec /\ IdleKV /\ IdleAsm /\ IdleRd /\ IdleBR

KvSizesToVec ==
    /\ ks_pc = "start"
    /\ ks_result' = KeyValuePair_to_vec_u8_sizes(ks_name_size, ks_value_size)
    /\ ks_pc' = IF ks_result'.ok THEN "done" ELSE "err"
    /\ UNCHANGED <<ks_name_size, ks_value_size>>
    /\ UNCHANGED <<recVars, kvVars, asmVars, rdVars, brVars>>

NextKVSizes == KvSizesToVec

SpecKVSizes == InitKVSizes /\ [][NextKVSizes]_vars

----------------------------------------------------------------------------
(* BeginRequest::new followed by BeginRequest::to_vec_u8 *)

InitBegin ==
    /\ br_role \in RoleType
    /\ br_flags \in BrFlags
    /\ br_reserved \in BrReserved
    /\ br_pc = "start"
    /\ br_result = Err("")
    /\ IdleRec /\ IdleKV /\ IdleAsm /\ IdleRd /\ IdleKS

BeginToVec ==
    /\ br_pc = "start"
    /\ br_result' = BeginRequest_to_vec_u8([role |-> br_role, flags |-> br_flags,
                                              reserved |-> br_reserved])
    /\ br_pc' = IF br_result'.ok THEN "done" ELSE "err"
    /\ UNCHANGED <<br_role, br_flags, br_reserved>>
    /\ UNCHANGED <<recVars, kvVars, asmVars, rdVars, ksVars>>

NextBegin == BeginToVec

SpecBegin == InitBegin /\ [][NextBegin]_vars

----------------------------------------------------------------------------
(* Request assembly: main builds BeginRequest, the Params records and an    *)
(* empty Stdin record and concatenates them; Server::serialize_params       *)
(* builds the Params records alone.                                         *)

InitAsm ==
    /\ params \in ParamLists
    /\ asm_pc = "start"
    /\ asm_i = 0
    /\ begin_rec = <<>> /\ kv_records = <<>> /\ stdin_record = <<>>
    /\ out = <<>>
    /\ asm_panic = ""
    /\ IdleRec /\ IdleKV /\ IdleRd /\ IdleBR /\ IdleKS

\* main: begin_body, begin_bytes, begin_rec
MainBegin ==
    /\ asm_pc = "start"
    /\ LET begin_body  == [role |-> "Responder", flags |-> 0, reserved |-> Zeros(5)]
           begin_bytes == BeginRequest_to_vec_u8(begin_body)
           rec == IF begin_bytes.ok
                  THEN record_from_data("BeginRequest", begin_bytes.val, 0)
                  ELSE begin_bytes
       IN  IF ~begin_bytes.ok
           THEN /\ asm_pc' = "panic" /\ asm_panic' = "Serialization failed"
                /\ UNCHANGED begin_rec
           ELSE IF ~rec.ok
           THEN /\ asm_pc' = "panic" /\ asm_panic' = "Record creation failed"
                /\ UNCHANGED begin_rec
           ELSE /\ asm_pc' = "params" /\ begin_rec' = rec.val
                /\ UNCHANGED asm_panic
    /\ asm_i' = 1
    /\ UNCHANGED <<params, kv_records, stdin_record, out>>
    /\ UNCHANGED <<recVars, kvVars, rdVars, brVars, ksVars>>

\* main: one turn of `for kv in kvs`
MainParam ==
    /\ asm_pc = "params"
    /\ asm_i <= Len(params)
    /\ LET rec == ParamRecord(params[asm_i])
       IN  IF ~rec.ok
           THEN /\ asm_pc' = "panic" /\ asm_panic' = rec.err
                /\ UNCHANGED <<kv_records, asm_i>>
           ELSE /\ kv_records' = Append(kv_records, rec.val)
                /\ asm_i' = asm_i + 1
                /\ UNCHANGED <<asm_pc, asm_panic>>
    /\ UNCHANGED <<params, begin_rec, stdin_record, out>>
    /\ UNCHANGED <<recVars, kvVars, rdVars, brVars, ksVars>>

\* main: stdin_record, after the loop over kvs
MainStdin ==
    /\ asm_pc = "params"
    /\ asm_i > Len(params)
    /\ LET rec == record_from_data("Stdin", <<>>, 0)
       IN  IF ~rec.ok
           THEN /\ asm_pc' = "panic" /\ asm_panic' = "record creation failed"
                /\ UNCHANGED stdin_record
           ELSE /\ asm_pc' = "concat" /\ stdin_record' = rec.val
                /\ UNCHANGED asm_panic
    /\ UNCHANGED <<params, asm_i, begin_rec, kv_records, out>>
    /\ UNCHANGED <<recVars, kvVars, rdVars, brVars, ksVars>>

\* main: out.extend(begin_rec), out.extend(kv) for each kv, out.extend(stdin_record)
MainOut ==
    /\ asm_pc = "concat"
    /\ out' = Record_to_vec_u8(begin_rec)
               \o Concat([i \in 1..Len(kv_records) |-> Record_to_vec_u8(kv_records[i])])
               \o Record_to_vec_u8(stdin_record)
    /\ asm_pc' = "done"
    /\ UNCHANGED <<params, asm_i, begin_rec, kv_records, stdin_record, asm_panic>>
    /\ UNCHANGED <<recVars, kvVars, rdVars, brVars, ksVars>>

\* Server::serialize_params on a Server built by Server::new(params, ..)
ServerSerializeParams ==
    /\ asm_pc = "start"
    /\ LET bytes == serialize_params(params)
       IN  IF ~bytes.ok
           THEN /\ asm_pc' = "panic" /\ asm_panic' = bytes.err
                /\ UNCHANGED out
           ELSE /\ asm_pc' = "serialized" /\ out' = bytes.val
                /\ UNCHANGED asm_panic
    /\ UNCHANGED <<params, asm_i, begin_rec, kv_records, stdin_record>>
    /\ UNCHANGED <<recVars, kvVars, rdVars, brVars, ksVars>>

NextAsm == MainBegin \/ MainParam \/ MainStdin \/ MainOut \/ ServerSerializeParams

SpecAsm == InitAsm /\ [][NextAsm]_vars

----------------------------------------------------------------------------
(* Server::consume_response_to_string on a transport that delivers the      *)
(* bytes of stream and then closes.  pos counts the bytes read so far, iter *)
(* the headers read so far.                                                 *)

InitReader ==
    /\ stream \in RdStreams
    /\ rd_pc = "header"
    /\ pos = 0
    /\ hbuf = Zeros(8)
    /\ response = <<>>
    /\ rd_result = "none"
    /\ rd_panic = ""
    /\ printed = <<>>
    /\ iter = 0
    /\ IdleRec /\ IdleKV /\ IdleAsm /\ IdleBR /\ IdleKS

\* self.app.read_exact(buf) for a buf of n bytes can be satisfied
CanRead(n) == Len(stream) - pos >= n

\* a read_exact that met the end of the stream taken for the end of the
\* response: the function returns Ok(())
ReadPanics_ReturnsOk(msg) ==
    /\ rd_pc' = "done"
    /\ rd_result' = "Ok"
    /\ rd_panic' = rd_panic
    /\ pos' = Len(stream)

\* .expect(msg) on a read_exact that met the end of the stream: the bytes
\* that were left are consumed and the thread panics
ReadPanics(msg) ==
    /\ rd_pc' = "panic"
    /\ rd_result' = "panic"
    /\ rd_panic' = msg
    /\ pos' = Len(stream)

\* let size: usize = ((hbuf[4] as usize) << 8) | hbuf[5] as usize
BodySize(h) == h[5] * 256 + h[6]

\* the padding length taken to be 0: the padding is not read
PadSize_Ignored(h) == 0

\* let padsz: usize = hbuf[6] as usize
PadSize(h) == h[7]

\* ReadHeader breaking out of the loop on an EndRequest header alone: the
\* content of a record of any other type is read and pushed to response
ReadHeader_BreakOnEndRequestOnly ==
    /\ rd_pc = "header"
    /\ IF ~CanRead(8)
       THEN /\ ReadPanics("Failed on read_exact 1")
            /\ UNCHANGED <<hbuf, printed, iter>>
       ELSE /\ hbuf' = SubSeq(stream, pos + 1, pos + 8)
            /\ pos' = pos + 8
            /\ iter' = iter + 1
            /\ IF hbuf'[2] = RecordType_as_u8("EndRequest")
               THEN /\ printed' = <<"End Request record received">>
                    /\ rd_pc' = "done"
                    /\ rd_result' = "Ok"
               ELSE /\ rd_pc' = "body"
                    /\ UNCHANGED <<printed, rd_result>>
            /\ UNCHANGED rd_panic
    /\ UNCHANGED <<stream, response>>
    /\ UNCHANGED <<recVars, kvVars, asmVars, brVars, ksVars>>

\* read the header; break out of the loop and return Ok(()) on a type byte
\* other than Stdout and Stderr
ReadHeader ==
    /\ rd_pc = "header"
    /\ IF ~CanRead(8)
       THEN /\ ReadPanics("Failed on read_exact 1")
            /\ UNCHANGED <<hbuf, printed, iter>>
       ELSE /\ hbuf' = SubSeq(stream, pos + 1, pos + 8)
            /\ pos' = pos + 8
            /\ iter' = iter + 1
            /\ IF /\ hbuf'[2] # RecordType_as_u8("Stdout")
                  /\ hbuf'[2] # RecordType_as_u8("Stderr")
               THEN /\ printed' = IF hbuf'[2] = RecordType_as_u8("EndRequest")
                                  THEN <<"End Request record received">>
                                  ELSE <<"Request with type", hbuf'[2], "received">>
                    /\ rd_pc' = "done"
                    /\ rd_result' = "Ok"
               ELSE /\ rd_pc' = "body"
                    /\ UNCHANGED <<printed, rd_result>>
            /\ UNCHANGED rd_panic
    /\ UNCHANGED <<stream, response>>
    /\ UNCHANGED <<recVars, kvVars, asmVars, brVars, ksVars>>

\* ReadBody pushing to response the content of the records of request 1
\* alone
ReadBody_OnlyRequestOne ==
    /\ rd_pc = "body"
    /\ LET size == BodySize(hbuf)
           record_body == SubSeq(stream, pos + 1, pos + size)
       IN  IF ~CanRead(size)
           THEN /\ ReadPanics("Failed on read_exact 2")
                /\ UNCHANGED response
           ELSE /\ response' = IF hbuf[3] = 0 /\ hbuf[4] = 1
                                THEN response \o from_utf8_lossy(record_body)
                                ELSE response
                /\ pos' = pos + size
                /\ rd_pc' = "pad"
                /\ UNCHANGED <<rd_result, rd_panic>>
    /\ UNCHANGED <<stream, hbuf, printed, iter>>
    /\ UNCHANGED <<recVars, kvVars, asmVars, brVars, ksVars>>

\* read the content and push it to response
ReadBody ==
    /\ rd_pc = "body"
    /\ LET size == BodySize(hbuf)
           record_body == SubSeq(stream, pos + 1, pos + size)
       IN  IF ~CanRead(size)
           THEN /\ ReadPanics("Failed on read_exact 2")
                /\ UNCHANGED response
           ELSE /\ response' = response \o from_utf8_lossy(record_body)
                /\ pos' = pos + size
                /\ rd_pc' = "pad"
                /\ UNCHANGED <<rd_result, rd_panic>>
    /\ UNCHANGED <<stream, hbuf, printed, iter>>
    /\ UNCHANGED <<recVars, kvVars, asmVars, brVars, ksVars>>

\* read the padding and drop it
ReadPad ==
    /\ rd_pc = "pad"
    /\ LET padsz == PadSize(hbuf)
       IN  IF ~CanRead(padsz)
           THEN ReadPanics("Failed on read_exact 3")
           ELSE /\ pos' = pos + padsz
                /\ rd_pc' = "header"
                /\ UNCHANGED <<rd_result, rd_panic>>
    /\ UNCHANGED <<stream, hbuf, response, printed, iter>>
    /\ UNCHANGED <<recVars, kvVars, asmVars, brVars, ksVars>>

NextReader == ReadHeader \/ ReadBody \/ ReadPad

SpecReader == InitReader /\ [][NextReader]_vars

\* The function runs in one thread and nothing but its own reads holds it
\* up: on a transport that delivers its bytes and then closes, every
\* read_exact returns, so the loop takes its next step as long as it has one.
SpecReaderFair == SpecReader /\ WF_vars(NextReader)

RECURSIVE ConsumeFrom(_, _, _)
\* Server::consume_response_to_string as a function of the bytes the
\* transport delivers: the loop from the point where p bytes were read and
\* response was r, to its end
ConsumeFrom(bytes, p, r) ==
    IF Len(bytes) - p < 8
    THEN [result |-> "panic", panic |-> "Failed on read_exact 1",
          pos |-> Len(bytes), response |-> r]
    ELSE LET h == SubSeq(bytes, p + 1, p + 8)
             size == BodySize(h)
             padsz == PadSize(h)
             pushed == r \o from_utf8_lossy(SubSeq(bytes, p + 9, p + 8 + size))
         IN  IF h[2] # RecordType_as_u8("Stdout") /\ h[2] # RecordType_as_u8("Stderr")
             THEN [result |-> "Ok", panic |-> "", pos |-> p + 8, response |-> r]
             ELSE IF Len(bytes) - (p + 8) < size
             THEN [result |-> "panic", panic |-> "Failed on read_exact 2",
                   pos |-> Len(bytes), response |-> r]
             ELSE IF Len(bytes) - (p + 8 + size) < padsz
             THEN [result |-> "panic", panic |-> "Failed on read_exact 3",
                   pos |-> Len(bytes), response |-> pushed]
             ELSE ConsumeFrom(bytes, p + 8 + size + padsz, pushed)

----------------------------------------------------------------------------
(* The whole model: any one of the components above, from its start *)

Init == InitRecord \/ InitKV \/ InitKVSizes \/ InitBegin \/ InitAsm \/ InitReader

Next == NextRecord \/ NextKV \/ NextKVSizes \/ NextBegin \/ NextAsm \/ NextReader

Spec == Init /\ [][Next]_vars

----------------------------------------------------------------------------
(* Claims about the record codec *)

\* the wire codes of the record types, FastCGI 1.0 section 8
WireCode(t) ==
    CASE t = "BeginRequest" -> 1 [] t = "AbortRequest" -> 2
      [] t = "EndRequest" -> 3 [] t = "Params" -> 4 [] t = "Stdin" -> 5
      [] t = "Stdout" -> 6 [] t = "Stderr" -> 7 [] t = "Data" -> 8
      [] t = "GetValues" -> 9 [] t = "GetValuesResult" -> 10
      [] t = "UnknownType" -> 11

\* C7: for every record type, every content of at most 65535 bytes and every
\* padding length, record_from_data succeeds and to_vec_u8 of its record is
\* 8 + content length + padding length bytes: version 1, the type's wire
\* code, (two request-id bytes,) the content length high and low byte, the
\* padding length, 0, the content unchanged and then padding-length zeros.
C7_RecordLayout ==
    LET c == Len(rec_content)
        p == rec_padding
        b == rec_bytes
    IN  /\ (rec_pc \notin {"idle", "start"} /\ c <= 65535) => rec_pc \in {"built", "done"}
        /\ rec_pc = "done" =>
              /\ Len(b) = 8 + c + p
              /\ b[1] = 1
              /\ b[2] = WireCode(rec_type)
              /\ b[5] \in 0..255 /\ b[6] \in 0..255
              /\ b[5] * 256 + b[6] = c
              /\ b[7] = p
              /\ b[8] = 0
              /\ SubSeq(b, 9, 8 + c) = rec_content
              /\ \A i \in (8 + c + 1)..(8 + c + p) : b[i] = 0

C7_Witness ==
    /\ rec_pc = "done"
    /\ Len(rec_content) = 65535
    /\ rec_padding = 255
    /\ Len(rec_bytes) = 8 + 65535 + 255

\* C8: a content longer than 65535 bytes makes record_from_data return the
\* error "Content too long" and no record is produced or serialized, while
\* a content of exactly 65535 bytes is accepted.
C8_ContentTooLarge ==
    rec_pc \notin {"idle", "start"} =>
        /\ Len(rec_content) > 65535 =>
              /\ rec_pc = "err"
              /\ rec_result = Err("Content too long")
              /\ rec_bytes = <<>>
        /\ Len(rec_content) = 65535 => (rec_result.ok /\ rec_pc # "err")

C8_Witness ==
    /\ rec_pc = "err"
    /\ Len(rec_content) = 65536
    /\ rec_result = Err("Content too long")

----------------------------------------------------------------------------
(* Claims about the name-value pair encoder *)

\* the length prefix of the FastCGI name-value encoding: one byte with top bit
\* 0 for a length up to 127, else four bytes, big-endian, the top bit of the
\* first set to 1 and the other 31 bits holding the length
SpecLengthPrefix(n) ==
    IF n <= 127 THEN <<n>>
    ELSE <<128 + ((n \div 16777216) % 128), (n \div 65536) % 256,
           (n \div 256) % 256, n % 256>>

\* C9: the encoding of a pair is the length prefix of the name (1 byte with
\* top bit 0 up to 127 bytes, else 4 bytes with the top bit set), the length
\* prefix of the value by the same rule, the name bytes, the value bytes.
C9_LengthPrefixForm ==
    kv_pc = "done" =>
        kv_result.val = SpecLengthPrefix(Len(kv_name)) \o SpecLengthPrefix(Len(kv_value))
                        \o kv_name \o kv_value

\* a length that 31 bits do not hold: one above 2^31 - 1
Over31Bits(size) == size.hi >= 32768

\* C12: encoding a pair fails with the error "Name or value size too large"
\* whenever the name's or the value's length exceeds 2^31 - 1, so that no
\* pair with such a length is encoded successfully.
C12_TooLargeRejected ==
    ks_pc \notin {"idle", "start"} =>
        /\ (Over31Bits(ks_name_size) \/ Over31Bits(ks_value_size)) =>
              ks_result = Err("Name or value size too large")
        /\ ks_result.ok => (~Over31Bits(ks_name_size) /\ ~Over31Bits(ks_value_size))

----------------------------------------------------------------------------
(* Claims about the BeginRequest body *)

\* the role codes of FastCGI 1.0 section 8
RoleCode(r) == CASE r = "Responder" -> 1 [] r = "Authorizer" -> 2 [] r = "Filter" -> 3

\* C11: for every role, flags and reserved bytes BeginRequest::new accepts,
\* to_vec_u8 succeeds with exactly 8 bytes: 0 (role high byte), the role code
\* (role low byte), the flags byte, then 5 reserved bytes that are all 0.
C11_BeginRequestBody ==
    br_pc \notin {"idle", "start"} =>
        /\ br_result.ok
        /\ br_result.val = <<0, RoleCode(br_role), br_flags, 0, 0, 0, 0, 0>>

----------------------------------------------------------------------------
(* Claims about the request assembly *)

RECURSIVE ParseRecords(_)
\* the records a byte sequence is made of, by the framing of the record
\* header; bytes that do not make a whole record end the list as a record
\* that is not whole
ParseRecords(bytes) ==
    IF bytes = <<>> THEN <<>>
    ELSE IF Len(bytes) < 8 \/ Len(bytes) < 8 + bytes[5] * 256 + bytes[6] + bytes[7]
    THEN <<[whole |-> FALSE, type |-> 0, version |-> 0, request_id |-> 0,
            content |-> <<>>, padding |-> <<>>]>>
    ELSE LET c == bytes[5] * 256 + bytes[6]
             p == bytes[7]
         IN  <<[whole |-> TRUE, type |-> bytes[2], version |-> bytes[1],
                request_id |-> bytes[3] * 256 + bytes[4],
                content |-> SubSeq(bytes, 9, 8 + c),
                padding |-> SubSeq(bytes, 9 + c, 8 + c + p)]>>
             \o ParseRecords(SubSeq(bytes, 9 + c + p, Len(bytes)))

\* C1: the byte sequence main assembles is a sequence of records: exactly one
\* BeginRequest record, which comes first; every Params record before every
\* Stdin record; a last Params record exists and is empty; a last Stdin
\* record exists and is empty.
C1_RequestWellFormed ==
    asm_pc = "done" =>
        LET rs == ParseRecords(out)
            n  == Len(rs)
        IN  /\ n >= 1
            /\ \A i \in 1..n : rs[i].whole
            /\ rs[1].type = 1
            /\ \A i \in 2..n : rs[i].type # 1
            /\ \A i, j \in 1..n : (rs[i].type = 4 /\ rs[j].type = 5) => i < j
            /\ \E i \in 1..n : /\ rs[i].type = 4
                                /\ rs[i].content = <<>>
                                /\ \A j \in (i + 1)..n : rs[j].type # 4
            /\ \E i \in 1..n : /\ rs[i].type = 5
                                /\ rs[i].content = <<>>
                                /\ \A j \in (i + 1)..n : rs[j].type # 5

\* the encodings of the pairs of a parameter list, in the list's order
EncodedPairs(kvs) == [i \in 1..Len(kvs) |-> KeyValuePair_to_vec_u8(kvs[i][1], kvs[i][2]).val]

\* the Params records among the emitted records, in emission order
ParamsRecordsOf(bytes) ==
    LET IsParams(r) == r.type = 4
    IN  SelectSeq(ParseRecords(bytes), IsParams)

\* C10: for any parameter list the assembly does not fail, each Params record
\* it emits has a content of at most 65535 bytes, and the contents of the
\* Params records, concatenated in emission order, are the encoded pairs
\* concatenated in the list's order.
C10_ParamsChunked ==
    /\ asm_pc # "panic"
    /\ asm_pc \in {"done", "serialized"} =>
          LET ps == ParamsRecordsOf(out)
          IN  /\ \A i \in 1..Len(ps) : Len(ps[i].content) <= 65535
              /\ Concat([i \in 1..Len(ps) |-> ps[i].content]) = Concat(EncodedPairs(params))

\* the records the assembly has built so far
BuiltRecords ==
    (IF begin_rec = <<>> THEN <<>> ELSE <<begin_rec>>) \o kv_records
    \o (IF stdin_record = <<>> THEN <<>> ELSE <<stdin_record>>)

\* C13: every record the assembly builds, and every record of the byte
\* sequence it puts out (BeginRequest, each Params record, the Stdin record;
\* or the Params records alone from serialize_params), has request-id bytes
\* 0 and 1, and the byte sequence is made of whole records, one per record
\* built.
C13_RequestIdOne ==
    /\ \A i \in 1..Len(BuiltRecords) :
          /\ BuiltRecords[i].header.request_id_hi = 0
          /\ BuiltRecords[i].header.request_id_lo = 1
    /\ asm_pc \in {"done", "serialized"} =>
          LET rs == ParseRecords(out)
          IN  /\ Len(rs) = Len(params) + (IF asm_pc = "done" THEN 2 ELSE 0)
              /\ \A i \in 1..Len(rs) : rs[i].whole /\ rs[i].request_id = 1

\* main's own request was assembled: BeginRequest, nine Params records and
\* the Stdin record
C13_Witness ==
    /\ asm_pc = "done"
    /\ params = MainKvs
    /\ Len(ParseRecords(out)) = 11
    /\ {ParseRecords(out)[i].type : i \in 1..11} = {1, 4, 5}

----------------------------------------------------------------------------
(* Claims about the response reader *)

\* the records the application server sent, the last one not whole when the
\* stream was closed inside it
Sent == ParseRecords(stream)

\* the bytes a record takes on the wire
RecordSize(r) == 8 + Len(r.content) + Len(r.padding)

RECURSIVE SizeOfFirst(_, _)
\* the bytes the first k records of rs take on the wire
SizeOfFirst(rs, k) == IF k = 0 THEN 0 ELSE SizeOfFirst(rs, k - 1) + RecordSize(rs[k])

\* the number of records whose content the reader has taken so far: the
\* record of the last header read counts once its content was read
BodiesRead ==
    CASE rd_pc \in {"header", "pad"} -> iter
      [] rd_pc \in {"body", "done"}  -> iter - 1
      [] rd_pc = "panic" -> IF rd_panic = "Failed on read_exact 2" THEN iter - 1 ELSE iter
      [] OTHER -> 0

\* the contents of the records of a type in types among the first k records
\* of rs, concatenated in arrival order
ContentsOf(rs, types, k) ==
    LET OfType(r) == r.type \in types
        taken == SelectSeq(SubSeq(rs, 1, k), OfType)
    IN  Concat([i \in 1..Len(taken) |-> taken[i].content])

\* the contents of the first k records of rs, each decoded by
\* from_utf8_lossy, concatenated in arrival order
LossyContents(rs, k) == Concat([i \in 1..k |-> from_utf8_lossy(rs[i].content)])

\* C2: at every point of the read loop the stdout buffer is the
\* concatenation, in arrival order, of the contents of the Stdout records
\* read so far (and so holds no byte of a Stderr record).  The buffer the
\* reader fills is response.
C2_StdoutBufferIsStdoutContent ==
    rd_pc # "idle" => response = ContentsOf(Sent, {6}, BodiesRead)

\* C3: when the reader has stopped on a header of type EndRequest whose
\* 8-byte body the stream holds, it has read that body: it has consumed the
\* header and the 8 content bytes of the record.
C3_EndRequestBodyRead ==
    LET sent == Sent
    IN  (rd_pc = "done" /\ hbuf[2] = 3 /\ sent[iter].whole /\ Len(sent[iter].content) = 8) =>
            pos >= SizeOfFirst(sent, iter - 1) + 8 + 8

\* C4: when the reader has stopped on a header whose type is none of Stdout,
\* Stderr, EndRequest, what it returns is not the Ok(()) it returns at an
\* EndRequest header, and response holds what was accumulated from the
\* records before that one.
C4_UnexpectedTypeDistinguished ==
    (rd_pc = "done" /\ hbuf[2] \notin {3, 6, 7}) =>
        /\ rd_result # "Ok"
        /\ response = LossyContents(Sent, iter - 1)

\* C6: a stream that closes before a read is satisfied does not abort the
\* reader: every end of the reader is a value returned to the caller.
C6_NoAbortOnEof ==
    rd_pc # "panic" /\ rd_result # "panic"

\* the framing part of C5, rs being the records sent: every header the reader
\* reads is the header of the next record sent, and after a Stdout or Stderr
\* record of content length c and padding length p it has consumed
\* 8 + c + p bytes more
Framing(rs) ==
    LET start == SizeOfFirst(rs, iter - 1)
    IN  /\ rd_pc = "header" => pos = SizeOfFirst(rs, iter)
        /\ rd_pc \in {"body", "pad", "done"} =>
              /\ iter \in 1..Len(rs)
              /\ hbuf = SubSeq(stream, start + 1, start + 8)
              /\ rs[iter].whole => hbuf[2] = rs[iter].type
        /\ rd_pc \in {"body", "done"} => pos = start + 8
        /\ (rd_pc = "pad" /\ rs[iter].whole) =>
              pos = start + 8 + Len(rs[iter].content)
        /\ rd_pc \in {"header", "body", "pad", "done"} =>
              \A i \in 1..(iter - 1) : rs[i].whole /\ rs[i].type \in {6, 7}

\* the records of rs whose content the reader has taken were delivered whole
TakenWhole(rs) == \A i \in 1..BodiesRead : rs[i].whole

C14_StopsAtFirstOther ==
    LET sent  == Sent
        start == SizeOfFirst(sent, iter - 1)
    IN  /\ (iter >= 1 /\ hbuf[2] \notin {6, 7}) => rd_pc = "done"
        /\ rd_pc = "done" =>
              /\ iter >= 1
              /\ hbuf[2] \notin {6, 7}
              /\ hbuf = SubSeq(stream, start + 1, start + 8)
              /\ \A i \in 1..(iter - 1) : sent[i].whole /\ sent[i].type \in {6, 7}
              /\ pos = start + 8
              /\ response = LossyContents(sent, iter - 1)
              /\ rd_result = "Ok"
              /\ ~ENABLED NextReader

\* the reader stopped at an EndRequest header after one Stdout or Stderr
\* record, with the EndRequest body and a whole record with content after
\* it left unread
C14_Witness ==
    /\ rd_pc = "done"
    /\ iter = 2
    /\ hbuf[2] = 3
    /\ response # <<>>
    /\ Len(Sent) = 3
    /\ Len(Sent[2].content) = 8
    /\ Sent[3].whole /\ Sent[3].type \in {6, 7} /\ Sent[3].content # <<>>
    /\ Len(stream) - pos = 8 + RecordSize(Sent[3])

\* the stream holds, after whole Stdout and Stderr records only, the header
\* of a record of another type
HasStopHeader ==
    LET sent == Sent
    IN  \E k \in 1..Len(sent) :
           LET start == SizeOfFirst(sent, k - 1)
           IN  /\ \A i \in 1..(k - 1) : sent[i].whole /\ sent[i].type \in {6, 7}
               /\ Len(stream) >= start + 8
               /\ stream[start + 2] \notin {6, 7}

\* the stream is made of whole Stdout and Stderr records only, and then ends
OnlyOutputRecords ==
    LET sent == Sent
    IN  \A i \in 1..Len(sent) : sent[i].whole /\ sent[i].type \in {6, 7}

\* C15: the reader returns Ok only when the last header it read has a type
\* other than Stdout and Stderr; on a stream that holds the header of such a
\* record after whole Stdout and Stderr records it ends by returning Ok; on
\* a stream of whole Stdout and Stderr records that then ends it never
\* returns Ok.
C15_OkOnlyAtOtherType ==
    /\ [](rd_result = "Ok" => (rd_pc = "done" /\ iter >= 1 /\ hbuf[2] \notin {6, 7}))
    /\ (HasStopHeader ~> (rd_pc = "done" /\ rd_result = "Ok"))
    /\ [](OnlyOutputRecords => rd_result # "Ok")

\* the reader returned Ok at a Data header after two records with content
C15_Witness ==
    /\ rd_result = "Ok"
    /\ iter = 3
    /\ hbuf[2] = 8
    /\ Len(Sent[1].content) > 0 /\ Len(Sent[2].content) > 0
    /\ HasStopHeader

RECURSIVE WithHeaders(_, _, _)
\* bytes with the version byte and the two request-id bytes of every record
\* header set to version and to the bytes of request_id, nothing else changed
WithHeaders(bytes, version, request_id) ==
    IF Len(bytes) < 8 THEN bytes
    ELSE LET next == 8 + bytes[5] * 256 + bytes[6] + bytes[7]
             header == <<version, bytes[2], request_id \div 256, request_id % 256>>
                       \o SubSeq(bytes, 5, 8)
         IN  IF Len(bytes) <= next
             THEN header \o SubSeq(bytes, 9, Len(bytes))
             ELSE header \o SubSeq(bytes, 9, next)
                  \o WithHeaders(SubSeq(bytes, next + 1, Len(bytes)), version, request_id)

\* versions and request ids headers are rewritten to
AltHeaders == {<<1, 1>>, <<0, 0>>, <<2, 513>>, <<U8_MAX, U16_MAX>>}

\* C16: what the reader ends with (the value returned or the panic, the
\* number of bytes consumed, the accumulated response) is what
\* consume_response_to_string gives on the same stream, and the same as on
\* any stream that differs from it only in the version and request-id bytes
\* of its record headers.
C16_IdAndVersionIgnored ==
    rd_pc \in {"done", "panic"} =>
        LET mine == [result |-> rd_result, panic |-> rd_panic,
                     pos |-> pos, response |-> response]
        IN  /\ ConsumeFrom(stream, 0, <<>>) = mine
            /\ \A a \in AltHeaders : ConsumeFrom(WithHeaders(stream, a[1], a[2]), 0, <<>>) = mine

\* the reader took the content of a record of version 2 and request id 513
\* and of a record of request id 2, and stopped
C16_Witness ==
    /\ rd_pc = "done"
    /\ iter = 3
    /\ {Sent[1].request_id, Sent[2].request_id} = {513, 2}
    /\ {Sent[1].version, Sent[2].version} = {1, 2}
    /\ Len(response) = Len(Replacement) * 2 + 4
    /\ WithHeaders(stream, 1, 1) # stream

====
